---- MODULE Spec2Model ----
(***************************************************************************)
(* A model of WebCore's BaseTile (platform/graphics/android/BaseTile.cpp): *)
(* one tile's dirty-region / double-buffer state machine, driven by the    *)
(* main GL thread (every operation but paintBitmap) and by the texture     *)
(* generation thread (paintBitmap).  The tile mutex m_atomicSync makes     *)
(* each locked section one step; paintBitmap is four steps because it      *)
(* drops the mutex between its snapshot and its publish.                   *)
(***************************************************************************)
EXTENDS Integers, Sequences, FiniteSets

(***************************************************************************)
(* Bounds of the model.                                                    *)
(***************************************************************************)
\* texture slots the pool hands out are 1..NumSlots; 0 is the null pointer
NumSlots == 2

Slots == 1..NumSlots

\* the size of a tile in pixels, texture->getSize() in paintBitmap, scaled
\* down
tileWidth == 2

tileHeight == 2

\* the content space the dirty regions live in: GridW x GridH unit cells
GridW == 2 * tileWidth
GridH == tileHeight

Cells == (0..(GridW - 1)) \X (0..(GridH - 1))

\* what owner() of a texture slot is to this tile: the tile itself, or not
\* (another tile, or nobody)
Owners == {"this", "other"}

\* the texture sharing modes of TilesManager
Modes == {"EglImageMode", "SurfaceTextureMode"}

(***************************************************************************)
(* Inputs.  A tile identity is <<painter, x, y, scale>>; painter 0 is the  *)
(* null pointer and x = y = -1 is the unset coordinate of the constructor. *)
(***************************************************************************)
BaseContents == <<1, 0, 0, 1>>

\* the identities setContents is called with: the base one, and one that
\* differs from it in each single field
Contents ==
    { BaseContents, <<2, 0, 0, 1>>, <<1, 1, 0, 1>>, <<1, 0, 1, 1>>, <<1, 0, 0, 2>> }

\* the scales draw is called with
Scales == {1, 2}

\* a cell inside tile (0,0): a partial repaint at scale 1
CellRegion == { <<0, 0>> }
\* a strip as wide as tile (0,0): escalates to a full repaint
RowRegion == { <<cx, tileHeight - 1>> : cx \in 0..(tileWidth - 1) }
\* a cell of tile (1,0), outside tile (0,0)
OutRegion == { <<tileWidth, 0>> }

\* the regions markAsDirty is called with (the empty one included)
DirtyInputs == { {}, CellRegion, RowRegion, OutRegion }

(***************************************************************************)
(* SkRegion: a set of pixels, iterated as the rectangles of its canonical  *)
(* form (horizontal bands top to bottom, spans left to right).             *)
(***************************************************************************)
Rect(l, t, r, b) == [fLeft |-> l, fTop |-> t, fRight |-> r, fBottom |-> b]

RectWidth(rc) == rc.fRight - rc.fLeft
RectHeight(rc) == rc.fBottom - rc.fTop

Max(a, b) == IF a >= b THEN a ELSE b
Min(a, b) == IF a <= b THEN a ELSE b

\* the columns of row cy that are in region rg
Row(rg, cy) == { cx \in 0..(GridW - 1) : <<cx, cy>> \in rg }

\* the first row below cy at which the band starting at cy ends
RECURSIVE BandBottom(_, _, _)
BandBottom(rg, cy, b) ==
    IF b >= GridH \/ Row(rg, b) # Row(rg, cy) THEN b ELSE BandBottom(rg, cy, b + 1)

\* the first column right of the span starting inside xs
RECURSIVE SpanRight(_, _)
SpanRight(xs, r) ==
    IF r >= GridW \/ r \notin xs THEN r ELSE SpanRight(xs, r + 1)

RECURSIVE Spans(_, _, _, _)
Spans(xs, top, bottom, cx) ==
    IF cx >= GridW THEN << >>
    ELSE IF cx \notin xs THEN Spans(xs, top, bottom, cx + 1)
    ELSE LET r == SpanRight(xs, cx + 1)
         IN  << Rect(cx, top, r, bottom) >> \o Spans(xs, top, bottom, r)

RECURSIVE Bands(_, _)
Bands(rg, cy) ==
    IF cy >= GridH THEN << >>
    ELSE IF Row(rg, cy) = {} THEN Bands(rg, cy + 1)
    ELSE LET b == BandBottom(rg, cy, cy + 1)
         IN  Spans(Row(rg, cy), cy, b, 0) \o Bands(rg, b)

\* SkRegion::Iterator: the rectangles of the region, in iteration order
RegionRects(rg) == Bands(rg, 0)


(***************************************************************************)
(* The state.                                                              *)
(***************************************************************************)
VARIABLES
    sharedTextureMode,       \* TilesManager::getSharedTextureMode()
    m_maxBufferNumber,
    m_painter, m_x, m_y, m_scale,
    m_frontTexture, m_backTexture,
    m_dirty, m_isTexturePainted, m_isSwapNeeded,
    m_currentDirtyAreaIndex, m_dirtyArea, m_fullRepaint,
    owner,                   \* BaseTileTexture::owner() of each slot
    pc,                      \* where the texture generation thread is in paintBitmap
    paint,                   \* the locals of the paintBitmap in flight
    rendered,                \* the invalRects handed to renderTiledContent in this pass
    gl,                      \* where the GL thread is: "idle", or "draw" inside draw
    last,                    \* the call that ended last and what it returned (TRUE
                             \* for a void one; for paintBitmap, whether it
                             \* recorded its result)
    owed,                    \* history: cells marked dirty and not repainted since
    marked,                  \* history: cells marked dirty since the snapshot in flight
    cleanPaint,              \* history: a paint left the current back slot clean
    fullPass,                \* history: the back slot got a full-tile pass since
                             \* reserveTexture installed it
    m_atomicSync,            \* the tile mutex: "free", or the thread holding it
    slotLock,                \* the producer/consumer lock of each slot
    conv                     \* history: the paints counted since the tile was
                             \* left to the producer

tileVars ==
    << m_painter, m_x, m_y, m_scale, m_frontTexture, m_backTexture, m_dirty,
       m_isTexturePainted, m_isSwapNeeded, m_currentDirtyAreaIndex, m_dirtyArea,
       m_fullRepaint >>

configVars == << sharedTextureMode, m_maxBufferNumber >>

paintVars == << pc, paint, rendered >>

histVars == << owed, marked, cleanPaint, fullPass >>

lockVars == << m_atomicSync, slotLock >>

vars == << configVars, tileVars, owner, paintVars, gl, last, histVars, lockVars, conv >>

Buffers == 0..(m_maxBufferNumber - 1)

\* the locals of paintBitmap when no paint is in flight
NoPaint ==
    [ dirty |-> FALSE, texture |-> 0, dirtyArea |-> {}, scale |-> 1, x |-> -1,
      y |-> -1, painter |-> 0, fullRepaint |-> FALSE ]

Did(op, ret) == last' = [ op |-> op, ret |-> ret ]

\* BaseTile::BaseTile
BaseTile(mode) ==
    /\ sharedTextureMode = mode
    /\ m_painter = 0
    /\ m_x = -1
    /\ m_y = -1
    /\ m_frontTexture = 0
    /\ m_backTexture = 0
    /\ m_scale = 1
    /\ m_dirty = TRUE
    /\ m_isTexturePainted = FALSE
    /\ m_isSwapNeeded = FALSE
    /\ m_currentDirtyAreaIndex = 0
    /\ m_maxBufferNumber = (IF mode = "EglImageMode" THEN 2 ELSE 1)
    /\ m_dirtyArea = [ i \in 0..((IF mode = "EglImageMode" THEN 2 ELSE 1) - 1) |-> {} ]
    /\ m_fullRepaint = [ i \in 0..((IF mode = "EglImageMode" THEN 2 ELSE 1) - 1) |-> TRUE ]

Init ==
    /\ \E mode \in Modes : BaseTile(mode)
    /\ owner = [ t \in Slots |-> "other" ]
    /\ pc = "idle"
    /\ paint = NoPaint
    /\ rendered = << >>
    /\ gl = "idle"
    /\ last = [ op |-> "BaseTile", ret |-> TRUE ]
    /\ owed = {}
    /\ marked = {}
    /\ cleanPaint = FALSE
    /\ fullPass = FALSE
    /\ m_atomicSync = "free"
    /\ slotLock = [ t \in Slots |-> "free" ]
    /\ conv = [ quiet |-> FALSE, paints |-> 0, done |-> FALSE ]

(***************************************************************************)
(* The texture slot and the pool, which BaseTile.cpp only calls.           *)
(***************************************************************************)
\* BaseTileTexture::release(tile): the tile gives up its claim on the slot
release(own, texture) ==
    IF texture # 0 /\ own[texture] = "this"
    THEN [ own EXCEPT ![texture] = "other" ]
    ELSE own

\* TilesManager::getAvailableTexture(tile): a slot now claimed by the tile, or
\* 0 when none is available; never the slot the tile shows as front
getAvailableTexture(texture) ==
    /\ texture \in Slots \cup {0}
    /\ texture # 0 => texture # m_frontTexture
    /\ owner' = IF texture = 0 THEN owner ELSE [ owner EXCEPT ![texture] = "this" ]

(***************************************************************************)
(* The operations of the main GL thread.  Each holds m_atomicSync for its  *)
(* whole body, draw excepted.                                              *)
(***************************************************************************)
\* a slip: only the active slot is invalidated
fullInval_activeOnly ==
    /\ m_dirtyArea' = [ m_dirtyArea EXCEPT ![m_currentDirtyAreaIndex] = {} ]
    /\ m_fullRepaint' = [ m_fullRepaint EXCEPT ![m_currentDirtyAreaIndex] = TRUE ]
    /\ m_dirty' = TRUE

fullInval ==
    /\ m_dirtyArea' = [ i \in Buffers |-> {} ]
    /\ m_fullRepaint' = [ i \in Buffers |-> TRUE ]
    /\ m_dirty' = TRUE

setContents(painter, x, y, scale) ==
    /\ gl = "idle"
    /\ IF m_painter # painter \/ m_x # x \/ m_y # y \/ m_scale # scale
       THEN fullInval
       ELSE UNCHANGED << m_dirtyArea, m_fullRepaint, m_dirty >>
    /\ m_painter' = painter
    /\ m_x' = x
    /\ m_y' = y
    /\ m_scale' = scale
    /\ Did("setContents", TRUE)
    /\ UNCHANGED << configVars, m_frontTexture, m_backTexture, m_isTexturePainted,
                    m_isSwapNeeded, m_currentDirtyAreaIndex, owner, paintVars, gl >>

\* a slip: the new back slot keeps the old one's m_isSwapNeeded
reserveTexture_keepSwap(texture) ==
    /\ gl = "idle"
    /\ getAvailableTexture(texture)
    /\ IF texture # 0 /\ m_backTexture # texture
       THEN /\ m_backTexture' = texture
            /\ m_dirty' = (IF m_frontTexture = 0 THEN TRUE ELSE m_dirty)
       ELSE UNCHANGED << m_backTexture, m_dirty >>
    /\ Did("reserveTexture", texture # 0 /\ m_backTexture # texture)
    /\ UNCHANGED << configVars, m_painter, m_x, m_y, m_scale, m_frontTexture,
                    m_isTexturePainted, m_isSwapNeeded, m_currentDirtyAreaIndex,
                    m_dirtyArea, m_fullRepaint, paintVars, gl >>

reserveTexture(texture) ==
    /\ gl = "idle"
    /\ getAvailableTexture(texture)
    /\ IF texture # 0 /\ m_backTexture # texture
       THEN /\ m_isSwapNeeded' = FALSE
            /\ m_backTexture' = texture
            /\ m_dirty' = (IF m_frontTexture = 0 THEN TRUE ELSE m_dirty)
       ELSE UNCHANGED << m_isSwapNeeded, m_backTexture, m_dirty >>
    /\ Did("reserveTexture", texture # 0 /\ m_backTexture # texture)
    /\ UNCHANGED << configVars, m_painter, m_x, m_y, m_scale, m_frontTexture,
                    m_isTexturePainted, m_currentDirtyAreaIndex, m_dirtyArea,
                    m_fullRepaint, paintVars, gl >>

\* a slip: losing the front slot does not mark the tile dirty
removeTextureBody_noDirty(texture) ==
    /\ m_frontTexture' = (IF m_frontTexture = texture THEN 0 ELSE m_frontTexture)
    /\ m_dirty' = m_dirty
    /\ m_backTexture' = (IF m_backTexture = texture THEN 0 ELSE m_backTexture)

\* the locked body of removeTexture
removeTextureBody(texture) ==
    /\ m_frontTexture' = (IF m_frontTexture = texture THEN 0 ELSE m_frontTexture)
    /\ m_dirty' = (IF m_frontTexture = texture THEN TRUE ELSE m_dirty)
    /\ m_backTexture' = (IF m_backTexture = texture THEN 0 ELSE m_backTexture)

removeTexture(texture) ==
    /\ gl = "idle"
    /\ texture \in Slots
    /\ removeTextureBody(texture)
    /\ Did("removeTexture", TRUE)
    /\ UNCHANGED << configVars, m_painter, m_x, m_y, m_scale, m_isTexturePainted,
                    m_isSwapNeeded, m_currentDirtyAreaIndex, m_dirtyArea,
                    m_fullRepaint, owner, paintVars, gl >>

\* the pool hands a slot to another tile: it notifies this tile, which drops
\* its references, and the slot reports the other tile as owner
transferTexture(texture) ==
    /\ gl = "idle"
    /\ texture \in Slots
    /\ owner[texture] # "other"
    /\ removeTextureBody(texture)
    /\ owner' = [ owner EXCEPT ![texture] = "other" ]
    /\ Did("transferTexture", TRUE)
    /\ UNCHANGED << configVars, m_painter, m_x, m_y, m_scale, m_isTexturePainted,
                    m_isSwapNeeded, m_currentDirtyAreaIndex, m_dirtyArea,
                    m_fullRepaint, paintVars, gl >>

markAsDirty(dirtyArea) ==
    /\ gl = "idle"
    /\ IF dirtyArea = {}
       THEN UNCHANGED << m_dirtyArea, m_dirty >>
       ELSE /\ m_dirtyArea' = [ i \in Buffers |-> m_dirtyArea[i] \cup dirtyArea ]
            /\ m_dirty' = TRUE
    /\ Did("markAsDirty", dirtyArea # {})
    /\ UNCHANGED << configVars, m_painter, m_x, m_y, m_scale, m_frontTexture,
                    m_backTexture, m_isTexturePainted, m_isSwapNeeded,
                    m_currentDirtyAreaIndex, m_fullRepaint, owner, paintVars, gl >>

\* what isDirty() returns; it changes nothing
isDirty == m_dirty

\* draw up to its read of m_isTexturePainted
draw_begin(scale) ==
    /\ gl = "idle"
    /\ IF m_x < 0 \/ m_y < 0 \/ m_scale # scale \/ m_frontTexture = 0
          \/ ~m_isTexturePainted
       THEN gl' = "idle" /\ Did("draw", FALSE)
       ELSE gl' = "draw" /\ Did("draw_begin", TRUE)
    /\ UNCHANGED << configVars, tileVars, owner, paintVars >>

\* draw from consumerLock to consumerRelease; textureInfo is null or not, and
\* readyFor answers ready or not; m_dirty is written without the mutex
draw_end(textureInfo, ready) ==
    /\ gl = "draw"
    /\ gl' = "idle"
    /\ m_dirty' = (IF textureInfo /\ ~ready THEN TRUE ELSE m_dirty)
    /\ Did("draw", textureInfo /\ ready)
    /\ UNCHANGED << configVars, m_painter, m_x, m_y, m_scale, m_frontTexture,
                    m_backTexture, m_isTexturePainted, m_isSwapNeeded,
                    m_currentDirtyAreaIndex, m_dirtyArea, m_fullRepaint, owner,
                    paintVars >>

\* a slip: line 258's m_dirty = true is missing
isTileReady_noDirty(ready) ==
    /\ gl = "idle"
    /\ LET texture == IF m_isSwapNeeded THEN m_backTexture ELSE m_frontTexture
       IN  IF texture = 0 \/ owner[texture] # "this" \/ m_dirty
           THEN Did("isTileReady", FALSE)
           ELSE Did("isTileReady", ready)
    /\ UNCHANGED << configVars, tileVars, owner, paintVars, gl >>

isTileReady(ready) ==
    /\ gl = "idle"
    /\ LET texture == IF m_isSwapNeeded THEN m_backTexture ELSE m_frontTexture
       IN  IF texture = 0 \/ owner[texture] # "this" \/ m_dirty
           THEN /\ Did("isTileReady", FALSE)
                /\ UNCHANGED m_dirty
           ELSE /\ Did("isTileReady", ready)
                /\ m_dirty' = (IF ready THEN m_dirty ELSE TRUE)
    /\ UNCHANGED << configVars, m_painter, m_x, m_y, m_scale, m_frontTexture,
                    m_backTexture, m_isTexturePainted, m_isSwapNeeded,
                    m_currentDirtyAreaIndex, m_dirtyArea, m_fullRepaint, owner,
                    paintVars, gl >>

discardTextures ==
    /\ gl = "idle"
    /\ owner' = release(release(owner, m_frontTexture), m_backTexture)
    /\ m_frontTexture' = 0
    /\ m_backTexture' = 0
    /\ m_dirty' = TRUE
    /\ Did("discardTextures", TRUE)
    /\ UNCHANGED << configVars, m_painter, m_x, m_y, m_scale, m_isTexturePainted,
                    m_isSwapNeeded, m_currentDirtyAreaIndex, m_dirtyArea,
                    m_fullRepaint, paintVars, gl >>

\* a slip: the back reference survives the swap
swapTexturesIfNeeded_keepBack ==
    /\ gl = "idle"
    /\ IF m_isSwapNeeded
       THEN /\ owner' = release(owner, m_frontTexture)
            /\ m_frontTexture' = m_backTexture
            /\ m_backTexture' = m_backTexture
            /\ m_isSwapNeeded' = FALSE
            /\ Did("swapTexturesIfNeeded", TRUE)
       ELSE /\ UNCHANGED << owner, m_frontTexture, m_backTexture, m_isSwapNeeded >>
            /\ Did("swapTexturesIfNeeded", FALSE)
    /\ UNCHANGED << configVars, m_painter, m_x, m_y, m_scale, m_dirty,
                    m_isTexturePainted, m_currentDirtyAreaIndex, m_dirtyArea,
                    m_fullRepaint, paintVars, gl >>

\* a slip: m_isSwapNeeded survives the swap
swapTexturesIfNeeded_keepNeeded ==
    /\ gl = "idle"
    /\ IF m_isSwapNeeded
       THEN /\ owner' = release(owner, m_frontTexture)
            /\ m_frontTexture' = m_backTexture
            /\ m_backTexture' = 0
            /\ m_isSwapNeeded' = m_isSwapNeeded
            /\ Did("swapTexturesIfNeeded", TRUE)
       ELSE /\ UNCHANGED << owner, m_frontTexture, m_backTexture, m_isSwapNeeded >>
            /\ Did("swapTexturesIfNeeded", FALSE)
    /\ UNCHANGED << configVars, m_painter, m_x, m_y, m_scale, m_dirty,
                    m_isTexturePainted, m_currentDirtyAreaIndex, m_dirtyArea,
                    m_fullRepaint, paintVars, gl >>

swapTexturesIfNeeded ==
    /\ gl = "idle"
    /\ IF m_isSwapNeeded
       THEN /\ owner' = release(owner, m_frontTexture)
            /\ m_frontTexture' = m_backTexture
            /\ m_backTexture' = 0
            /\ m_isSwapNeeded' = FALSE
            /\ Did("swapTexturesIfNeeded", TRUE)
       ELSE /\ UNCHANGED << owner, m_frontTexture, m_backTexture, m_isSwapNeeded >>
            /\ Did("swapTexturesIfNeeded", FALSE)
    /\ UNCHANGED << configVars, m_painter, m_x, m_y, m_scale, m_dirty,
                    m_isTexturePainted, m_currentDirtyAreaIndex, m_dirtyArea,
                    m_fullRepaint, paintVars, gl >>


(***************************************************************************)
(* paintBitmap, on the texture generation thread.                          *)
(***************************************************************************)
intersectWithRect(x, y, tw, th, scale, dirtyRect) ==
    LET tileLeft == x * tw
        tileTop == y * th
        l == Max(tileLeft, dirtyRect.fLeft * scale)
        t == Max(tileTop, dirtyRect.fTop * scale)
        r == Min(tileLeft + tw, dirtyRect.fRight * scale)
        b == Min(tileTop + th, dirtyRect.fBottom * scale)
    IN  [ intersect |-> l < r /\ t < b, realTileRect |-> Rect(l, t, r, b) ]

\* the rectangle translated into tile space coordinates
tileSpaceRect(finalRealRect, tw, th) ==
    LET l == finalRealRect.fLeft % tw
        t == finalRealRect.fTop % th
    IN  Rect(l, t, l + RectWidth(finalRealRect), t + RectHeight(finalRealRect))

\* the while loop over the rectangles of the dirty region, from the i-th on:
\* whether it ends in fullRepaint, and the invalRects it had rendered
RECURSIVE paintLoop(_, _, _, _)
paintLoop(p, rects, i, calls) ==
    IF i > Len(rects) THEN [ fullRepaint |-> FALSE, calls |-> calls ]
    ELSE LET hit == intersectWithRect(p.x, p.y, tileWidth, tileHeight, p.scale,
                                      rects[i])
         IN  IF ~hit.intersect THEN paintLoop(p, rects, i + 1, calls)
             ELSE IF sharedTextureMode = "SurfaceTextureMode"
                  THEN [ fullRepaint |-> TRUE, calls |-> calls ]
             ELSE IF RectWidth(hit.realTileRect) = tileWidth
                     \/ RectHeight(hit.realTileRect) = tileHeight
                  THEN [ fullRepaint |-> TRUE, calls |-> calls ]
                  ELSE paintLoop(p, rects, i + 1,
                                 Append(calls, tileSpaceRect(hit.realTileRect,
                                                             tileWidth, tileHeight)))

\* lines 288-304: the snapshot under the mutex, and the producer lock
paintBitmap_snapshot ==
    /\ pc = "idle"
    /\ IF ~m_dirty \/ m_backTexture = 0
       THEN /\ pc' = "idle"
            /\ paint' = NoPaint
            /\ Did("paintBitmap", FALSE)
       ELSE /\ pc' = "owner"
            /\ UNCHANGED last
            /\ paint' = [ dirty |-> m_dirty, texture |-> m_backTexture,
                          dirtyArea |-> m_dirtyArea[m_currentDirtyAreaIndex],
                          scale |-> m_scale, x |-> m_x, y |-> m_y,
                          painter |-> m_painter, fullRepaint |-> FALSE ]
    /\ rendered' = << >>
    /\ UNCHANGED << configVars, tileVars, owner, gl >>

\* lines 306-311: the ownership check, outside the mutex
paintBitmap_checkOwner ==
    /\ pc = "owner"
    /\ IF owner[paint.texture] # "this"
       THEN /\ pc' = "idle"
            /\ paint' = NoPaint
            /\ Did("paintBitmap", FALSE)
       ELSE /\ pc' = "render"
            /\ UNCHANGED << paint, last >>
    /\ UNCHANGED << configVars, tileVars, owner, rendered, gl >>

\* a slip: only a size mismatch forces the full repaint
forceFullRepaint_sizeOnly(sizeMatches) == ~sizeMatches

\* lines 333-344: what forces a full repaint before the loop is entered
forceFullRepaint(sizeMatches) ==
    \/ m_fullRepaint[m_currentDirtyAreaIndex]
    \/ ~sizeMatches
    \/ sharedTextureMode = "SurfaceTextureMode"

\* a slip: the full repaint of lines 390-398 is missing
paintBitmap_render_noFullCall(sizeMatches) ==
    /\ pc = "render"
    /\ LET loop == IF forceFullRepaint(sizeMatches)
                   THEN [ fullRepaint |-> TRUE, calls |-> << >> ]
                   ELSE paintLoop(paint, RegionRects(paint.dirtyArea), 1, << >>)
       IN  /\ paint' = [ paint EXCEPT !.fullRepaint = loop.fullRepaint ]
           /\ rendered' = loop.calls
    /\ pc' = "publish"
    /\ UNCHANGED << configVars, tileVars, owner, gl, last >>

\* lines 313-398: the repaint extent and the calls of the renderer;
\* sizeMatches: textureInfo's width and height are the tile's
paintBitmap_render(sizeMatches) ==
    /\ pc = "render"
    /\ LET loop == IF forceFullRepaint(sizeMatches)
                   THEN [ fullRepaint |-> TRUE, calls |-> << >> ]
                   ELSE paintLoop(paint, RegionRects(paint.dirtyArea), 1, << >>)
       IN  /\ paint' = [ paint EXCEPT !.fullRepaint = loop.fullRepaint ]
           /\ rendered' = IF loop.fullRepaint
                          THEN Append(loop.calls, Rect(0, 0, tileWidth, tileHeight))
                          ELSE loop.calls
    /\ pc' = "publish"
    /\ UNCHANGED << configVars, tileVars, owner, gl, last >>

\* a slip: the result is recorded whatever the back slot is by now
stillBack_always == TRUE

\* line 406: the slot painted is still the back slot
stillBack == paint.texture = m_backTexture

\* a slip: line 414's m_dirty = false is missing
dirtyAfter_noReset(scaleChanged, area, nextArea) ==
    m_dirty \/ scaleChanged \/ area # {} \/ nextArea # {}

\* lines 414-433: m_dirty after the paint, from whether the scale moved, the
\* region left in the slot painted and the region of the slot now active
dirtyAfter(scaleChanged, area, nextArea) ==
    scaleChanged \/ area # {} \/ nextArea # {}

\* lines 400-439: producerReleaseAndSwap and the bookkeeping under the mutex
paintBitmap_publish ==
    /\ pc = "publish"
    /\ IF stillBack
       THEN LET i == m_currentDirtyAreaIndex
                area == IF paint.fullRepaint
                        THEN {}
                        ELSE m_dirtyArea[i] \ paint.dirtyArea
                areas == [ m_dirtyArea EXCEPT ![i] = area ]
                next == (i + 1) % m_maxBufferNumber
                dirty == dirtyAfter(m_scale # paint.scale, area, areas[next])
            IN  /\ m_isTexturePainted' = TRUE
                /\ m_fullRepaint' = [ m_fullRepaint EXCEPT ![i] = FALSE ]
                /\ m_dirtyArea' = areas
                /\ m_currentDirtyAreaIndex' = next
                /\ m_dirty' = dirty
                /\ m_isSwapNeeded' = (IF ~dirty THEN TRUE ELSE m_isSwapNeeded)
                /\ Did("paintBitmap", TRUE)
       ELSE /\ UNCHANGED << m_isTexturePainted, m_fullRepaint, m_dirtyArea,
                            m_currentDirtyAreaIndex, m_dirty, m_isSwapNeeded >>
            /\ Did("paintBitmap", FALSE)
    /\ pc' = "idle"
    /\ paint' = NoPaint
    /\ rendered' = << >>
    /\ UNCHANGED << configVars, m_painter, m_x, m_y, m_scale, m_frontTexture,
                    m_backTexture, owner, gl >>


(***************************************************************************)
(* The history variables.  They record what happened and steer nothing.    *)
(* owed, marked and fullPass are kept only where track is TRUE.            *)
(***************************************************************************)
\* this paintBitmap_publish records success
Published == pc = "publish" /\ pc' = "idle" /\ stillBack

HistGL == UNCHANGED << owed, marked, cleanPaint, fullPass >>

HistMark(dirtyArea, track) ==
    /\ owed' = IF track THEN owed \cup dirtyArea ELSE owed
    /\ marked' = IF track /\ pc # "idle" THEN marked \cup dirtyArea ELSE marked
    /\ UNCHANGED << cleanPaint, fullPass >>

\* a new back slot, or a swap, uses up the clean paint and the full pass of
\* the old back slot
HistBack(track) ==
    /\ cleanPaint' = IF last'.ret THEN FALSE ELSE cleanPaint
    /\ fullPass' = IF track /\ last'.ret THEN FALSE ELSE fullPass
    /\ UNCHANGED << owed, marked >>

HistPaint ==
    /\ marked' = IF pc' \in {"render", "publish"} THEN marked ELSE {}
    /\ UNCHANGED << owed, cleanPaint, fullPass >>

\* a paint that records success has repainted what its snapshot held, or
\* everything when it was a full repaint; what was marked since is still owed
HistPublish(track) ==
    /\ owed' = IF ~Published THEN owed
               ELSE IF paint.fullRepaint THEN marked
               ELSE (owed \ paint.dirtyArea) \cup marked
    /\ cleanPaint' = IF Published /\ ~m_dirty' THEN TRUE ELSE cleanPaint
    /\ fullPass' = IF track /\ Published /\ paint.fullRepaint THEN TRUE ELSE fullPass
    /\ marked' = {}

\* the steps that take each locked section as one step leave the locks alone
Plain == UNCHANGED << lockVars, conv >>

(***************************************************************************)
(* The steps: the GL thread's operations, called with the inputs given,    *)
(* and the steps of one paintBitmap at a time.  Where concurrent is FALSE  *)
(* the GL thread waits while a paint is in flight.                         *)
(***************************************************************************)
Steps(contents, areas, textures, scales, concurrent, track) ==
    LET free == concurrent \/ pc = "idle"
    IN  \/ \E c \in contents :
              free /\ setContents(c[1], c[2], c[3], c[4]) /\ HistGL /\ Plain
        \/ \E texture \in textures \cup {0} :
              free /\ reserveTexture(texture) /\ HistBack(track) /\ Plain
        \/ \E texture \in textures :
              free /\ removeTexture(texture) /\ HistGL /\ Plain
        \/ \E texture \in textures :
              free /\ transferTexture(texture) /\ HistGL /\ Plain
        \/ \E dirtyArea \in areas :
              free /\ markAsDirty(dirtyArea) /\ HistMark(dirtyArea, track) /\ Plain
        \/ \E scale \in scales : free /\ draw_begin(scale) /\ HistGL /\ Plain
        \/ \E textureInfo, ready \in BOOLEAN :
              free /\ draw_end(textureInfo, ready) /\ HistGL /\ Plain
        \/ \E ready \in BOOLEAN : free /\ isTileReady(ready) /\ HistGL /\ Plain
        \/ free /\ discardTextures /\ HistGL /\ Plain
        \/ free /\ swapTexturesIfNeeded /\ HistBack(track) /\ Plain
        \/ paintBitmap_snapshot /\ HistPaint /\ Plain
        \/ paintBitmap_checkOwner /\ HistPaint /\ Plain
        \/ \E sizeMatches \in BOOLEAN :
              paintBitmap_render(sizeMatches) /\ HistPaint /\ Plain
        \/ paintBitmap_publish /\ HistPublish(track) /\ Plain

\* the identities and regions of the concurrent specification
MainContents == { BaseContents, <<1, 0, 0, 2>> }
MainAreas == { {}, CellRegion }

Next == Steps(MainContents, MainAreas, Slots, Scales, TRUE, FALSE)

Spec == Init /\ [][Next]_vars

\* one slot, every identity: what setContents does to the dirty state
NextContents == Steps(Contents, MainAreas, {1}, Scales, TRUE, FALSE)

SpecContents == Init /\ [][NextContents]_vars

\* one slot, with owed and marked kept: what becomes of a region marked dirty
NextOwed == Steps(MainContents, MainAreas, {1}, Scales, TRUE, TRUE)

SpecOwed == Init /\ [][NextOwed]_vars

\* the GL thread waits while a paint is in flight: a call followed by a
\* whole paintBitmap, with nothing in between
NextSeq == Steps(MainContents, DirtyInputs, {1}, Scales, FALSE, FALSE)

SpecSeq == Init /\ [][NextSeq]_vars


(***************************************************************************)
(* The same operations with the tile mutex and the slot locks as steps of  *)
(* their own: a thread that waits for a lock is at a step that is not      *)
(* enabled.  A locked section that cannot block is still one step, taken   *)
(* when the mutex is free.  The slot's producer/consumer lock is taken as  *)
(* exclusive: one holder at a time, producer or consumer.                  *)
(***************************************************************************)
\* android::AutoMutex lock(m_atomicSync) around a body that does not block
AutoMutex(body) == m_atomicSync = "free" /\ body /\ UNCHANGED lockVars

\* producerLock / consumerLock of a slot: waits until the slot's lock is free
lockSlot(texture, who) ==
    /\ slotLock[texture] = "free"
    /\ slotLock' = [ slotLock EXCEPT ![texture] = who ]

\* producerRelease / producerReleaseAndSwap / consumerRelease of a slot
releaseSlot(texture) == slotLock' = [ slotLock EXCEPT ![texture] = "free" ]

\* lines 288-300: lock, snapshot, and unlock where paintBitmap returns at once
paintBitmap_lockedSnapshot ==
    /\ m_atomicSync = "free"
    /\ paintBitmap_snapshot
    /\ m_atomicSync' = IF pc' = "owner" THEN "paint" ELSE "free"
    /\ UNCHANGED slotLock

\* a slip: the unlock of line 304 is missing
paintBitmap_producerLock_keepMutex ==
    /\ pc = "owner"
    /\ m_atomicSync = "paint"
    /\ lockSlot(paint.texture, "producer")
    /\ m_atomicSync' = m_atomicSync
    /\ UNCHANGED << configVars, tileVars, owner, paintVars, gl, last >>

\* lines 302-304: producerLock with the mutex held, then the unlock
paintBitmap_producerLock ==
    /\ pc = "owner"
    /\ m_atomicSync = "paint"
    /\ lockSlot(paint.texture, "producer")
    /\ m_atomicSync' = "free"
    /\ UNCHANGED << configVars, tileVars, owner, paintVars, gl, last >>

\* lines 308-311: the ownership check, and producerRelease where it fails
paintBitmap_ownerChecked ==
    /\ pc = "owner"
    /\ slotLock[paint.texture] = "producer"
    /\ paintBitmap_checkOwner
    /\ IF pc' = "idle" THEN releaseSlot(paint.texture) ELSE UNCHANGED slotLock
    /\ UNCHANGED m_atomicSync

\* lines 313-398
paintBitmap_rendering(sizeMatches) ==
    paintBitmap_render(sizeMatches) /\ UNCHANGED lockVars

\* line 400
paintBitmap_relock ==
    /\ pc = "publish"
    /\ m_atomicSync = "free"
    /\ m_atomicSync' = "paint"
    /\ UNCHANGED << configVars, tileVars, owner, paintVars, gl, last, slotLock >>

\* lines 405-439: producerReleaseAndSwap and the bookkeeping, then the unlock
paintBitmap_lockedPublish ==
    /\ pc = "publish"
    /\ m_atomicSync = "paint"
    /\ releaseSlot(paint.texture)
    /\ paintBitmap_publish
    /\ m_atomicSync' = "free"

\* line 240: the slot isTileReady asks about
isTileReady_texture == IF m_isSwapNeeded THEN m_backTexture ELSE m_frontTexture

\* a slip: a dirty tile is probed all the same
isTileReady_returnsEarly_dirtyToo(texture) ==
    texture = 0 \/ owner[texture] # "this"

\* lines 242-249: isTileReady returns false without probing the slot
isTileReady_returnsEarly(texture) ==
    texture = 0 \/ owner[texture] # "this" \/ m_dirty

\* lines 239-249: the lock and the checks; the mutex is kept for the probe
isTileReady_locked ==
    /\ gl = "idle"
    /\ m_atomicSync = "free"
    /\ IF isTileReady_returnsEarly(isTileReady_texture)
       THEN isTileReady(FALSE) /\ UNCHANGED lockVars
       ELSE /\ m_atomicSync' = "gl"
            /\ UNCHANGED << configVars, tileVars, owner, paintVars, gl, last,
                            slotLock >>

\* lines 251-259: consumerLock, readyFor and consumerRelease with the mutex
\* held, then the unlock
isTileReady_probe(ready) ==
    /\ m_atomicSync = "gl"
    /\ slotLock[isTileReady_texture] = "free"
    /\ isTileReady(ready)
    /\ m_atomicSync' = "free"
    /\ UNCHANGED slotLock

\* lines 200-214: the reads without the mutex, then lock, read and unlock
draw_locked(scale) ==
    /\ \/ m_x < 0 \/ m_y < 0 \/ m_scale # scale \/ m_frontTexture = 0
       \/ m_atomicSync = "free"
    /\ draw_begin(scale)
    /\ UNCHANGED lockVars

\* line 216
draw_consumerLock ==
    /\ gl = "draw"
    /\ lockSlot(m_frontTexture, "consumer")
    /\ UNCHANGED << configVars, tileVars, owner, paintVars, gl, last, m_atomicSync >>

\* lines 217-233: the draw command or m_dirty = true, and consumerRelease
draw_consumerRelease(textureInfo, ready) ==
    /\ gl = "draw"
    /\ slotLock[m_frontTexture] = "consumer"
    /\ draw_end(textureInfo, ready)
    /\ releaseSlot(m_frontTexture)
    /\ UNCHANGED m_atomicSync

\* what the texture generation thread does once paintBitmap has its snapshot
PaintContinues ==
    \/ paintBitmap_producerLock /\ HistGL /\ UNCHANGED conv
    \/ paintBitmap_ownerChecked /\ HistPaint /\ UNCHANGED conv
    \/ \E sizeMatches \in BOOLEAN :
          paintBitmap_rendering(sizeMatches) /\ HistPaint /\ UNCHANGED conv
    \/ paintBitmap_relock /\ HistGL /\ UNCHANGED conv
    \/ paintBitmap_lockedPublish /\ HistPublish(FALSE) /\ UNCHANGED conv

\* what the GL thread does once it is inside isTileReady or draw
GLContinues ==
    \/ \E ready \in BOOLEAN : isTileReady_probe(ready) /\ HistGL /\ UNCHANGED conv
    \/ draw_consumerLock /\ HistGL /\ UNCHANGED conv
    \/ \E textureInfo, ready \in BOOLEAN :
          draw_consumerRelease(textureInfo, ready) /\ HistGL /\ UNCHANGED conv

StepsLocks(contents, areas, textures, scales) ==
    \/ \E c \in contents :
          AutoMutex(setContents(c[1], c[2], c[3], c[4])) /\ HistGL /\ UNCHANGED conv
    \/ \E texture \in textures \cup {0} :
          AutoMutex(reserveTexture(texture)) /\ HistBack(FALSE) /\ UNCHANGED conv
    \/ \E texture \in textures :
          AutoMutex(removeTexture(texture)) /\ HistGL /\ UNCHANGED conv
    \/ \E texture \in textures :
          AutoMutex(transferTexture(texture)) /\ HistGL /\ UNCHANGED conv
    \/ \E dirtyArea \in areas :
          /\ AutoMutex(markAsDirty(dirtyArea))
          /\ HistMark(dirtyArea, FALSE)
          /\ UNCHANGED conv
    \/ AutoMutex(discardTextures) /\ HistGL /\ UNCHANGED conv
    \/ AutoMutex(swapTexturesIfNeeded) /\ HistBack(FALSE) /\ UNCHANGED conv
    \/ isTileReady_locked /\ HistGL /\ UNCHANGED conv
    \/ \E scale \in scales : draw_locked(scale) /\ HistGL /\ UNCHANGED conv
    \/ paintBitmap_lockedSnapshot /\ HistPaint /\ UNCHANGED conv
    \/ PaintContinues
    \/ GLContinues

\* one identity, one region, two slots: the two threads and the two locks
NextLocks == StepsLocks({BaseContents}, {CellRegion}, {1, 2}, {1})

\* each thread, once inside an operation, goes on when it can
SpecLocks ==
    /\ Init
    /\ [][NextLocks]_vars
    /\ WF_vars(PaintContinues)
    /\ WF_vars(GLContinues)


(***************************************************************************)
(* The tile left to the producer: from a state where the tile is dirty,    *)
(* has a back slot of its own and no paint in flight, the GL thread calls  *)
(* only draw, isTileReady and swapTexturesIfNeeded, and conv counts the    *)
(* calls of paintBitmap that return, up to the number of buffers, and      *)
(* records whether one of them returned with the tile clean and            *)
(* m_isSwapNeeded set.                                                     *)
(***************************************************************************)
\* from here on nothing marks, reconfigures or takes slots from the tile
Quiet ==
    /\ ~conv.quiet
    /\ pc = "idle"
    /\ m_dirty
    /\ m_backTexture # 0
    /\ owner[m_backTexture] = "this"
    /\ conv' = [ quiet |-> TRUE, paints |-> 0, done |-> FALSE ]
    /\ UNCHANGED << configVars, tileVars, owner, paintVars, gl, last, histVars,
                    lockVars >>

\* a call of paintBitmap that returns in the quiet phase is counted
CountPaint ==
    conv' = IF conv.quiet /\ pc' = "idle"
            THEN [ conv EXCEPT
                     !.paints = Min(@ + 1, m_maxBufferNumber),
                     !.done = @ \/ (~m_dirty' /\ m_isSwapNeeded') ]
            ELSE conv

StepsConverge(contents, areas, textures, scales) ==
    \/ \E c \in contents :
          /\ ~conv.quiet
          /\ setContents(c[1], c[2], c[3], c[4]) /\ HistGL /\ Plain
    \/ \E texture \in textures \cup {0} :
          ~conv.quiet /\ reserveTexture(texture) /\ HistBack(FALSE) /\ Plain
    \/ \E texture \in textures :
          ~conv.quiet /\ removeTexture(texture) /\ HistGL /\ Plain
    \/ \E texture \in textures :
          ~conv.quiet /\ transferTexture(texture) /\ HistGL /\ Plain
    \/ \E dirtyArea \in areas :
          /\ ~conv.quiet
          /\ markAsDirty(dirtyArea) /\ HistMark(dirtyArea, FALSE) /\ Plain
    \/ ~conv.quiet /\ discardTextures /\ HistGL /\ Plain
    \/ Quiet
    \/ \E scale \in scales : draw_begin(scale) /\ HistGL /\ Plain
    \/ \E textureInfo, ready \in BOOLEAN :
          draw_end(textureInfo, ready) /\ HistGL /\ Plain
    \/ \E ready \in BOOLEAN : isTileReady(ready) /\ HistGL /\ Plain
    \/ swapTexturesIfNeeded /\ HistBack(FALSE) /\ Plain
    \/ paintBitmap_snapshot /\ HistPaint /\ CountPaint /\ UNCHANGED lockVars
    \/ paintBitmap_checkOwner /\ HistPaint /\ CountPaint /\ UNCHANGED lockVars
    \/ \E sizeMatches \in BOOLEAN :
          /\ paintBitmap_render(sizeMatches)
          /\ HistPaint /\ CountPaint /\ UNCHANGED lockVars
    \/ paintBitmap_publish /\ HistPublish(FALSE) /\ CountPaint /\ UNCHANGED lockVars

NextConverge == StepsConverge(MainContents, MainAreas, {1}, {1})

SpecConverge == Init /\ [][NextConverge]_vars


(***************************************************************************)
(* The shape of the state.                                                 *)
(***************************************************************************)
TypeOK ==
    /\ sharedTextureMode \in Modes
    /\ m_maxBufferNumber \in {1, 2}
    /\ m_frontTexture \in Slots \cup {0}
    /\ m_backTexture \in Slots \cup {0}
    /\ m_dirty \in BOOLEAN
    /\ m_isTexturePainted \in BOOLEAN
    /\ m_isSwapNeeded \in BOOLEAN
    /\ m_currentDirtyAreaIndex \in Buffers
    /\ m_dirtyArea \in [ Buffers -> SUBSET Cells ]
    /\ m_fullRepaint \in [ Buffers -> BOOLEAN ]
    /\ owner \in [ Slots -> Owners ]
    /\ pc \in {"idle", "owner", "render", "publish"}
    /\ paint.texture \in Slots \cup {0}
    /\ paint.dirtyArea \subseteq Cells
    /\ gl \in {"idle", "draw"}
    /\ last.ret \in BOOLEAN
    /\ owed \subseteq Cells
    /\ marked \subseteq Cells
    /\ cleanPaint \in BOOLEAN
    /\ fullPass \in BOOLEAN
    /\ m_atomicSync \in {"free", "gl", "paint"}
    /\ slotLock \in [ Slots -> {"free", "producer", "consumer"} ]
    /\ conv.quiet \in BOOLEAN
    /\ conv.paints \in 0..m_maxBufferNumber
    /\ conv.done \in BOOLEAN

(***************************************************************************)
(* What the properties below speak of.                                     *)
(***************************************************************************)
\* a paint of this slot is between its producer lock and its publish
InFlight(texture) == pc \in {"owner", "render", "publish"} /\ paint.texture = texture

\* this step is the GL thread's call of op
Called(op) == pc' = pc /\ last'.op = op

\* this step is a swapTexturesIfNeeded that returns true
SwapReturnsTrue == Called("swapTexturesIfNeeded") /\ last'.ret

\* this step is the publish of the paint in flight
Publishing == pc = "publish" /\ pc' = "idle"

identity == << m_painter, m_x, m_y, m_scale >>

(***************************************************************************)
(* C1.  The consumer never has as front slot a slot the producer is still  *)
(* painting: no slot is front while a paintBitmap on it is between its     *)
(* producer lock and its publish.  It fails: markAsDirty leaves            *)
(* m_isSwapNeeded set, a second paint of the back slot starts, and the     *)
(* swap promotes that slot in mid-paint.                                   *)
(***************************************************************************)
C1_FrontNeverInFlight == ~(m_frontTexture # 0 /\ InFlight(m_frontTexture))

(***************************************************************************)
(* C3.  paintBitmap records no success for a slot whose owner is not this  *)
(* tile when the buffer is published: such a publish leaves                *)
(* m_isTexturePainted, the dirty regions, the full-repaint flags, the      *)
(* index, m_dirty and m_isSwapNeeded as they were.                         *)
(***************************************************************************)
C3_NoSuccessWithoutOwnership ==
    [][ Publishing /\ owner[paint.texture] # "this"
        => UNCHANGED << m_isTexturePainted, m_dirtyArea, m_fullRepaint,
                        m_currentDirtyAreaIndex, m_dirty, m_isSwapNeeded >> ]_vars

\* a paint reaches its publish with its slot handed to another tile meanwhile
C3_Witness == pc = "publish" /\ owner[paint.texture] # "this"

(***************************************************************************)
(* C4.  swapTexturesIfNeeded returns true only after a paint completed     *)
(* with m_dirty false on the back slot in place since; and when it returns *)
(* true, m_isSwapNeeded is false and the back reference is null after it.  *)
(***************************************************************************)
C4_SwapOnlyAfterCleanPaint ==
    [][ SwapReturnsTrue
        => cleanPaint /\ ~m_isSwapNeeded' /\ m_backTexture' = 0 ]_vars

\* a swap has just returned true and promoted a slot
C4_Witness ==
    /\ last = [ op |-> "swapTexturesIfNeeded", ret |-> TRUE ]
    /\ m_frontTexture # 0
    /\ m_backTexture = 0

(***************************************************************************)
(* C8.  A swapTexturesIfNeeded that follows a swapTexturesIfNeeded, no     *)
(* paint having completed clean in between, returns false and changes no   *)
(* tile state.                                                             *)
(***************************************************************************)
C8_SecondSwapIsNoOp ==
    [][ Called("swapTexturesIfNeeded") /\ last.op = "swapTexturesIfNeeded"
        /\ ~cleanPaint
        => ~last'.ret /\ UNCHANGED << tileVars, owner >> ]_vars

\* a swap has returned true, no paint has completed since, and the GL thread
\* is free to call it again
C8_Witness ==
    /\ last = [ op |-> "swapTexturesIfNeeded", ret |-> TRUE ]
    /\ ~cleanPaint
    /\ gl = "idle"
    /\ pc = "idle"

(***************************************************************************)
(* C9.  removeTexture called with the front slot clears the front          *)
(* reference and leaves m_dirty true; called with a slot that is neither   *)
(* front nor back it changes no tile state.                                *)
(***************************************************************************)
C9_RemoveFrontMarksDirty ==
    [][ \A texture \in Slots :
            Called("removeTexture") /\ removeTexture(texture)
            => /\ texture = m_frontTexture => m_frontTexture' = 0 /\ m_dirty'
               /\ texture # m_frontTexture /\ texture # m_backTexture
                  => UNCHANGED tileVars ]_vars

\* removeTexture has just run on a tile that had shown a painted front slot
\* and was clean: it has no front slot now and is dirty
C9_Witness ==
    /\ last.op = "removeTexture"
    /\ m_frontTexture = 0
    /\ m_isTexturePainted
    /\ m_dirty
    /\ \A i \in Buffers : m_dirtyArea[i] = {} /\ ~m_fullRepaint[i]
    /\ m_scale = 1

C2_DirtyWhileOwed == owed # {} => isDirty

(***************************************************************************)
(* C5.  markAsDirty with a nonempty region followed at once by a paint     *)
(* that repaints in full leaves the dirty region of the slot painted       *)
(* empty; as claimed, m_dirty false as well, for either buffer count.      *)
(***************************************************************************)
\* this step publishes the full repaint that followed a markAsDirty at once
RoundTrip ==
    /\ Publishing
    /\ last = [ op |-> "markAsDirty", ret |-> TRUE ]
    /\ paint.fullRepaint

C5_RoundTripLeavesClean ==
    [][ RoundTrip
        => m_dirtyArea'[m_currentDirtyAreaIndex] = {} /\ ~m_dirty' ]_vars

\* C5 as amended: the region of the slot painted is empty, and m_dirty is
\* false with one buffer; with two it stays true, the other slot's region
\* still holding what was marked
C5_RoundTripPerBufferCount ==
    [][ RoundTrip
        => /\ m_dirtyArea'[m_currentDirtyAreaIndex] = {}
           /\ m_dirty' <=> m_maxBufferNumber = 2 ]_vars

\* the paint that followed a markAsDirty at once has rendered in full and is
\* about to publish
C5_Witness ==
    /\ pc = "publish"
    /\ last = [ op |-> "markAsDirty", ret |-> TRUE ]
    /\ paint.fullRepaint
    /\ paint.dirtyArea # {}

(***************************************************************************)
(* C6.  On a tile with one buffer and no front slot, a reserveTexture that *)
(* installs a back slot forces m_dirty; as claimed, the paint that follows *)
(* with an empty active dirty region is a no-op: the renderer is not       *)
(* called and m_isTexturePainted stays false.                              *)
(***************************************************************************)
\* the paint in flight followed such a reserveTexture at once
AfterReserve ==
    /\ m_maxBufferNumber = 1
    /\ last = [ op |-> "reserveTexture", ret |-> TRUE ]
    /\ m_frontTexture = 0
    /\ paint.dirtyArea = {}

ReserveForcesDirty ==
    Called("reserveTexture") /\ last'.ret /\ m_maxBufferNumber = 1
    /\ m_frontTexture = 0
    => m_backTexture' # 0 /\ m_dirty'

C6_PaintAfterReserveIsNoOp ==
    [][ /\ ReserveForcesDirty
        /\ pc = "render" /\ pc' = "publish" /\ AfterReserve => rendered' = << >>
        /\ Publishing /\ AfterReserve /\ ~m_isTexturePainted
           => ~m_isTexturePainted' ]_vars

\* C6 as amended: that paint is no no-op; it calls the renderer once, with
\* the whole tile, and sets m_isTexturePainted
C6_PaintAfterReserveIsFull ==
    [][ /\ ReserveForcesDirty
        /\ pc = "render" /\ pc' = "publish" /\ AfterReserve
           => rendered' = << Rect(0, 0, tileWidth, tileHeight) >>
        /\ Publishing /\ AfterReserve => m_isTexturePainted' ]_vars

\* the first paint of a fresh one-buffer tile, its region empty, about to
\* publish
C6_Witness ==
    /\ pc = "publish"
    /\ AfterReserve
    /\ ~m_isTexturePainted

(***************************************************************************)
(* C7.  A setContents that changes the painter, x, y or the scale leaves   *)
(* every slot's dirty region empty, every slot's full-repaint flag true    *)
(* and m_dirty true; one that changes none of them leaves the regions,     *)
(* the flags and m_dirty as they were.                                     *)
(***************************************************************************)
C7_SetContentsInvalidates ==
    [][ Called("setContents")
        => IF identity' # identity
           THEN /\ \A i \in Buffers : m_dirtyArea'[i] = {} /\ m_fullRepaint'[i]
                /\ m_dirty'
           ELSE UNCHANGED << m_dirtyArea, m_fullRepaint, m_dirty >> ]_vars

\* setContents has just run on a tile painted before, and has left every
\* flag set and every region empty
C7_Witness ==
    /\ last.op = "setContents"
    /\ m_isTexturePainted
    /\ m_painter = 2
    /\ m_dirty
    /\ \A i \in Buffers : m_dirtyArea[i] = {} /\ m_fullRepaint[i]

(***************************************************************************)
(* C11.  While m_isSwapNeeded is set the tile has a back slot, and a       *)
(* swapTexturesIfNeeded that returns true leaves as front slot the slot    *)
(* that was back, a slot and not the null pointer.  It fails: removeTexture *)
(* of the back slot and discardTextures clear m_backTexture and leave      *)
(* m_isSwapNeeded set, and the swap then promotes the null pointer.        *)
(***************************************************************************)
C11_SwapPromotesASlot ==
    /\ [](m_isSwapNeeded => m_backTexture # 0)
    /\ [][ SwapReturnsTrue
           => m_frontTexture' # 0 /\ m_frontTexture' = m_backTexture ]_vars

(***************************************************************************)
(* C12.  The producer/consumer lock of a slot is entered and left only by  *)
(* a thread that does not hold the tile mutex: producerLock and            *)
(* producerReleaseAndSwap in paintBitmap, consumerLock and consumerRelease *)
(* in isTileReady and draw.  It fails: paintBitmap calls producerLock      *)
(* before its first unlock and producerReleaseAndSwap after its second     *)
(* lock, and isTileReady probes the slot inside its locked body.           *)
(***************************************************************************)
\* this step enters or leaves a slot's lock
SlotLockStep ==
    \/ slotLock' # slotLock
    \/ \E ready \in BOOLEAN : isTileReady_probe(ready)

C12_SlotLockOutsideMutex == [][ SlotLockStep => m_atomicSync = "free" ]_vars

(***************************************************************************)
(* C13.  The thread that calls the renderer in paintBitmap does not hold   *)
(* the tile mutex when it does, and the thread that issues the draw        *)
(* command in draw does not hold it either: neither keeps the other        *)
(* waiting for the mutex while it renders or draws.                        *)
(***************************************************************************)
\* the texture generation thread is about to call renderTiledContent
Rendering == pc = "render"

\* the GL thread is between consumerLock and consumerRelease in draw
Drawing == gl = "draw" /\ slotLock[m_frontTexture] = "consumer"

C13_NoMutexWhileRenderingOrDrawing ==
    /\ Rendering => m_atomicSync # "paint"
    /\ Drawing => m_atomicSync # "gl"

\* one thread renders into the back slot while the other draws the front slot
C13_Witness == Rendering /\ Drawing /\ m_atomicSync = "free"

(***************************************************************************)
(* C14.  Every step that reads or writes the tile's fields is taken by a   *)
(* thread that holds the tile mutex, and draw never goes on with a front   *)
(* slot reference that has been cleared.  It fails: paintBitmap reads      *)
(* m_fullRepaint[m_currentDirtyAreaIndex] between its unlock and its       *)
(* second lock, and draw reads m_frontTexture and writes m_dirty after     *)
(* its unlock.                                                             *)
(***************************************************************************)
\* paintBitmap works out the repaint extent, from m_fullRepaint among others
ReadsFullRepaint == pc = "render" /\ pc' = "publish"

\* draw asks its front slot whether it is ready, and sets m_dirty if not
DrawFinishes == gl = "draw" /\ gl' = "idle"

C14_StateOnlyUnderMutex ==
    [][ /\ ReadsFullRepaint => m_atomicSync = "paint"
        /\ DrawFinishes => m_atomicSync = "gl"
        /\ gl' = "draw" => m_frontTexture' # 0 ]_vars

(***************************************************************************)
(* C15.  The tile mutex and a slot's lock never form a cycle: no state has *)
(* the texture generation thread holding a slot's lock and waiting for the *)
(* mutex while the GL thread holds the mutex and waits for that slot's     *)
(* lock.  And every paintBitmap, draw and isTileReady that has started     *)
(* comes to its end, each thread going on whenever it can.                 *)
(***************************************************************************)
\* paintBitmap is at line 400, its slot's lock held, the mutex not yet its own
PaintWaitsForMutex == pc = "publish" /\ m_atomicSync # "paint"

\* isTileReady is at line 251, the mutex held, the slot's lock taken by another
ReadyWaitsForSlot(texture) ==
    /\ m_atomicSync = "gl"
    /\ isTileReady_texture = texture
    /\ slotLock[texture] # "free"

NoLockCycle ==
    \A texture \in Slots :
        ~(PaintWaitsForMutex /\ paint.texture = texture /\ ReadyWaitsForSlot(texture))

C15_NoDeadlock ==
    /\ []NoLockCycle
    /\ (pc # "idle") ~> (pc = "idle")
    /\ (gl = "draw") ~> (gl = "idle")
    /\ (m_atomicSync = "gl") ~> (m_atomicSync # "gl")

\* draw waits for the lock of its front slot, which paintBitmap holds while it
\* has yet to take the mutex for its publish
C15_Witness ==
    /\ gl = "draw"
    /\ slotLock[m_frontTexture] = "producer"
    /\ PaintWaitsForMutex

(***************************************************************************)
(* C16.  A pass of paintBitmap that ends in a full repaint calls the       *)
(* renderer with the whole tile and, where it records its result, leaves   *)
(* the active dirty region empty; as claimed, that call is the only call   *)
(* of the pass.  A pass that does not end in a full repaint calls the      *)
(* renderer once for each rectangle of the dirty region that meets the     *)
(* tile, and never with the whole tile.                                    *)
(***************************************************************************)
fullTileRect == Rect(0, 0, tileWidth, tileHeight)

\* the rectangles of the snapshot's dirty region that meet the tile
Hits(p) ==
    LET rects == RegionRects(p.dirtyArea)
    IN  { i \in 1..Len(rects) :
            intersectWithRect(p.x, p.y, tileWidth, tileHeight, p.scale,
                              rects[i]).intersect }

\* this step is the pass over the dirty region and its calls of the renderer
RenderPass == pc = "render" /\ pc' = "publish"

\* a pass without escalation: one call for each rectangle that meets the tile
PartialPass ==
    /\ Len(rendered') = Cardinality(Hits(paint))
    /\ \A i \in 1..Len(rendered') : rendered'[i] # fullTileRect

\* a full repaint that records its result empties the region of its slot
FullPassEmptiesRegion ==
    Publishing /\ stillBack /\ paint.fullRepaint
    => m_dirtyArea'[m_currentDirtyAreaIndex] = {}

C16_EscalationRendersOnce ==
    [][ /\ RenderPass
           => IF paint'.fullRepaint
              THEN rendered' = << fullTileRect >>
              ELSE PartialPass
        /\ FullPassEmptiesRegion ]_vars

\* C16 as amended: the call with the whole tile is the last call of the pass
\* and the only one with the whole tile; before it the renderer has been
\* called for the rectangles that met the tile ahead of the escalating one
C16_EscalationRendersFullLast ==
    [][ /\ RenderPass
           => IF paint'.fullRepaint
              THEN /\ rendered' # << >>
                   /\ rendered'[Len(rendered')] = fullTileRect
                   /\ \A i \in 1..(Len(rendered') - 1) : rendered'[i] # fullTileRect
                   /\ Len(rendered') = 1 \/ Len(rendered') <= Cardinality(Hits(paint))
              ELSE PartialPass
        /\ FullPassEmptiesRegion ]_vars

\* a pass has rendered one rectangle of its region, has then met one as wide
\* as the tile, and has rendered the whole tile after that
C16_Witness ==
    /\ pc = "publish"
    /\ paint.fullRepaint
    /\ Len(rendered) = 2
    /\ rendered[2] = fullTileRect

(***************************************************************************)
(* C17.  A paintBitmap that finds its slot owned by another tile releases  *)
(* the slot's lock, records nothing and returns with m_dirty true.  An     *)
(* isTileReady that returns false for a slot the tile refers to, be it for *)
(* the slot's owner or for a failed probe, returns with m_dirty true; so   *)
(* does a draw whose front slot fails the probe.                           *)
(***************************************************************************)
\* this step is paintBitmap's return at line 310
OwnerLost == pc = "owner" /\ pc' = "idle"

RefsOwned ==
    \A texture \in {m_frontTexture, m_backTexture} \ {0} : owner[texture] = "this"

(***************************************************************************)
(* C18.  A slot that swapTexturesIfNeeded promotes to front has had a      *)
(* full-tile pass of the renderer from this tile since reserveTexture      *)
(* installed it as back slot.  It fails: the full-repaint flags belong to  *)
(* the buffer index and not to the slot, so a slot reserved after the      *)
(* flags were cleared gets a partial pass, or none, and is published.      *)
(***************************************************************************)
C18_PromotedSlotWasFullyPainted ==
    [][ SwapReturnsTrue /\ m_backTexture # 0 => fullPass ]_vars

(***************************************************************************)
(* C19.  A setContents that changes the painter, x, y or the scale while a *)
(* paintBitmap is between its snapshot and its publish is not lost: when   *)
(* that paint ends the tile is dirty, m_isSwapNeeded is not set, and the   *)
(* full-repaint flag of the slot it painted is still true.  It fails: the  *)
(* publish compares the scale only, and clears the flag in any case.       *)
(***************************************************************************)
\* the identity the paint in flight took in its snapshot
snapshotIdentity == << paint.painter, paint.x, paint.y, paint.scale >>

C19_IdentityChangeSurvivesPaint ==
    [][ Publishing /\ snapshotIdentity # identity
        => /\ m_dirty'
           /\ ~m_isSwapNeeded'
           /\ m_fullRepaint'[m_currentDirtyAreaIndex] ]_vars

(***************************************************************************)
(* C20.  From a state where the tile is dirty and has a back slot of its   *)
(* own, with no markAsDirty, setContents, reserveTexture, removeTexture or *)
(* discardTextures from then on, one of the next m_maxBufferNumber calls   *)
(* of paintBitmap returns with m_dirty false and m_isSwapNeeded true; and  *)
(* m_currentDirtyAreaIndex stays within 0..m_maxBufferNumber-1.  It fails: *)
(* where m_isSwapNeeded was left set when the tile became dirty again,     *)
(* swapTexturesIfNeeded takes the back slot away and no paint can clean    *)
(* the tile.                                                               *)
(***************************************************************************)
C20_ConvergesWithinBufferCount ==
    /\ m_currentDirtyAreaIndex \in Buffers
    /\ conv.quiet /\ conv.paints = m_maxBufferNumber => conv.done

====
